---- MODULE Spec2Model ----
(***************************************************************************)
(* A model of the adaptive layout-fitting engine of the ATS resume         *)
(* generator (src/resume_generator.py) and of the /generate handler of the *)
(* web service around it (src/app.py).                                     *)
(*                                                                         *)
(* Representation.                                                         *)
(*   - A text is represented by its length (a natural number); the only    *)
(*     thing the engine reads of a text is len(...).  An absent or empty   *)
(*     optional text (None or "") is the length 0: the code tests such     *)
(*     fields by truthiness only.  Skill category labels are strings,      *)
(*     because they are dictionary keys.                                   *)
(*   - Font sizes are fixed-point numbers, U units to the point, margins   *)
(*     MU units to the inch; every value the code can reach from the tier  *)
(*     table by at most three multiplications by 0.95 (fonts) or 0.9       *)
(*     (margins) is exact in these units.                                  *)
(*   - The volume score is in tenths (its weights are 0.5, 0.7, 0.3).      *)
(*   - Section margins of a document are in twips (1/1440 in), as the      *)
(*     document library stores them.                                       *)
(*   - Heights are in HU units to the point; the page estimate is the      *)
(*     fraction [num, den], and 1 is [num |-> 1, den |-> 1].               *)
(* Floating-point rounding error of the Python arithmetic is not modelled. *)
(***************************************************************************)
EXTENDS Integers, Sequences, FiniteSets, TLC

----------------------------------------------------------------------------
(* Units *)

\* font units per point
U == 100 * 100
\* margin units per inch
MU == 100 * 100
\* height units per point (a line height is 1.5 x or 1.2 x a font size)
HU == 2 * U

Max(a, b) == IF a >= b THEN a ELSE b

RECURSIVE SumSeq(_)
SumSeq(s) == IF s = <<>> THEN 0 ELSE Head(s) + SumSeq(Tail(s))

\* len(sep.join(xs)) for texts xs given by their lengths, sep of length n
JoinLen(xs, n) == IF xs = <<>> THEN 0 ELSE SumSeq(xs) + n * (Len(xs) - 1)

----------------------------------------------------------------------------
(* Program constants: ResumeGenerator.__init__ and the fit loop *)

min_font_size == 12 * U
max_font_size == 14 * U
\* 0.5 in
min_margin == MU \div 2
\* 2.0 in
max_margin == 2 * MU
\* 0.75 in, the margin of a freshly constructed generator
default_margin == (3 * MU) \div 4
max_attempts == 3

----------------------------------------------------------------------------
(* Bounds of the model *)

\* the number of entries (jobs, internships, projects, certifications,
\* skill categories, education entries) a generator is given
MaxEntries == 4
\* the number of /generate requests the web application serves concurrently
NumRequests == 2
Requests == 1 .. NumRequests

----------------------------------------------------------------------------
(* Sample inputs.  Entries carry the lengths of their texts. *)

\* professional_summary: None, 400 characters, 1000 characters
SummarySamples == {0, 400, 1000}

NameSample == 10

\* [len, linkedin]: e-mail, phone, LinkedIn URL, location
ContactSample ==
    << [len |-> 17, linkedin |-> FALSE], [len |-> 12, linkedin |-> FALSE],
       [len |-> 28, linkedin |-> TRUE],  [len |-> 13, linkedin |-> FALSE] >>

\* a job with no bullet (volume 100) and one with 1000 characters of bullets
\* (volume 800)
EmptyJob ==
    [title |-> 20, company |-> 10, location |-> 10, start_date |-> 8,
     end_date |-> 8, responsibilities |-> <<>>, achievements |-> <<>>]
HeavyJob ==
    [title |-> 20, company |-> 10, location |-> 10, start_date |-> 8,
     end_date |-> 8, responsibilities |-> <<500>>, achievements |-> <<500>>]
WorkSamples == {EmptyJob, HeavyJob}

\* an internship of four short responsibilities, of two lines each that
\* become one line each once the margins have been narrowed twice, and one
\* long achievement: many lines, no volume
InternshipSamples ==
    { [title |-> 15, company |-> 10, location |-> 10, start_date |-> 8,
       end_date |-> 8, responsibilities |-> << 152, 152, 152, 152 >>,
       achievements |-> << 680 >>] }

ProjectSamples ==
    { [name |-> 12, description |-> 60, technologies |-> <<6, 5>>,
       url |-> 18, start_date |-> 8, end_date |-> 8] }

CertificationSamples ==
    { [name |-> 20, issuer |-> 6, date |-> 8, expiration_date |-> 0,
       url |-> 0] }

EducationSamples ==
    { [degree |-> 20, institution |-> 20, location |-> 10,
       graduation_date |-> 8, gpa |-> 3, relevant_courses |-> <<10, 12>>] }

\* add_technical_skills(category, skills): the label and the skills' lengths
SkillSamples ==
    { [category |-> "Programming Language", skills |-> <<>>],
      [category |-> "Programming Language", skills |-> <<6, 4, 1>>],
      [category |-> "Tools", skills |-> <<3, 6>>] }

\* submitted forms, of different people and of different volumes; a
\* bullet of length 0 is a bullet field left blank
FormA ==
    [ name |-> 10, contact_info |-> ContactSample,
      professional_summary |-> 400,
      work |-> << [HeavyJob EXCEPT !.responsibilities = <<500, 0>>] >>,
      internships |-> <<>>, projects |-> <<>>, certifications |-> <<>>,
      skills |-> << [category |-> "Tools", skills |-> <<3, 0, 6>>],
                    [category |-> "Cloud", skills |-> <<0>>] >>,
      education |-> <<>> ]
FormB ==
    [ name |-> 12, contact_info |-> ContactSample,
      professional_summary |-> 1000,
      work |-> << HeavyJob, [HeavyJob EXCEPT !.achievements = <<0, 500>>] >>,
      internships |-> <<>>, projects |-> <<>>, certifications |-> <<>>,
      skills |-> << [category |-> "Tools", skills |-> <<3, 6>>] >>,
      education |-> << [degree |-> 20, institution |-> 20, location |-> 10,
                        graduation_date |-> 8, gpa |-> 3,
                        relevant_courses |-> <<10, 0, 12>>] >> ]
\* a form with more than a page of work history and internships
FormC ==
    [ FormB EXCEPT
        !.name = 14,
        !.work = << HeavyJob, HeavyJob, HeavyJob >>,
        !.internships =
            << [title |-> 15, company |-> 10, location |-> 10,
                start_date |-> 8, end_date |-> 8,
                responsibilities |-> <<680, 0, 680>>,
                achievements |-> <<680>>] >> ]
FormSamples == {FormA, FormB, FormC}

\* a form field that was not submitted: form_data.get returns None
None == -1

\* a submission without any field, and the blank form as a browser submits
\* it: every text field present and empty, every entry counter 0
EmptyForm ==
    [ name |-> None,
      contact_info |-> [i \in 1..4 |-> [len |-> None, linkedin |-> FALSE]],
      professional_summary |-> 0,
      work |-> <<>>, internships |-> <<>>, projects |-> <<>>,
      certifications |-> <<>>, skills |-> <<>>, education |-> <<>> ]
BlankForm ==
    [ EmptyForm EXCEPT
        !.name = 0,
        !.contact_info = [i \in 1..4 |-> [len |-> 0, linkedin |-> FALSE]] ]
WebFormSamples == FormSamples \cup {EmptyForm, BlankForm}

----------------------------------------------------------------------------
(* State *)

VARIABLES
    \* the ResumeGenerator instance: its structured data
    name, contact_info, professional_summary,
    work_experience, technical_skills, education,
    internships, projects, certifications,
    \* the ResumeGenerator instance: its size profile
    name_font_size, heading_font_size, normal_font_size, margin_size,
    \* the ResumeGenerator instance: self.doc, the document being built
    doc,
    \* generate_resume / _check_and_adjust_for_page_fit: position and locals
    pc, attempts, page_count, temp_file,
    \* what the pass has produced: the output file, the printed warning
    output_file, warning,
    \* bookkeeping of the model: the measurements made in this pass, the
    \* diagnostics of the previous pass on this instance
    measures, previous,
    \* the environment: the file-system fault that has hit the pass, if any
    fault,
    \* create_resume_from_json run on a JSON document: the document, and how
    \* far the call has come
    json_doc, loader,
    \* the web application: each /generate request's position and locals,
    \* and the file temp_resume_data.json of the upload folder
    requests, json_file

dataVars == << name, contact_info, professional_summary, work_experience,
               technical_skills, education, internships, projects,
               certifications >>
profileVars == << name_font_size, heading_font_size, normal_font_size,
                  margin_size >>
fitVars == << pc, attempts, page_count, temp_file >>
outVars == << output_file, warning >>
bookVars == << measures, previous >>
engineVars == << dataVars, profileVars, doc, fitVars, outVars, bookVars,
                fault >>
cliVars == << json_doc, loader >>
webVars == << requests, json_file >>
vars == << engineVars, webVars, cliVars >>

----------------------------------------------------------------------------
(* The document library, as far as the engine uses it *)

\* Inches(x): a length in EMU, int(x * 914400), for x in margin units
Inches(x) == (x * (914400 \div 100)) \div (MU \div 100)

\* a section margin is stored in twips: round(emu / 635)
Twips(emu) == (2 * emu + 635) \div 1270

\* Pt(x): a length in EMU, int(x * 12700); a style's font size is stored in
\* half-points, int(emu / 6350)
HalfPoints(x) == ((x * 127) \div (U \div 100)) \div 6350

\* Document() followed by _setup_document(): no paragraph, the four margins
\* set to margin_size, the three styles created with the current font sizes
NewDocument(nfs, hfs, bfs, m) ==
    [ margin     |-> Twips(Inches(m)),
      styles     |-> [ heading |-> HalfPoints(hfs), normal |-> HalfPoints(bfs),
                       name |-> HalfPoints(nfs) ],
      paragraphs |-> <<>> ]

Para(style, len) == [style |-> style, len |-> len]

----------------------------------------------------------------------------
(* The sections: the paragraphs each _add_* method appends to self.doc *)

RECURSIVE LinkedinUrl(_)
\* the last contact item that contains 'linkedin.com', 0 if there is none
LinkedinUrl(items) ==
    IF items = <<>> THEN 0
    ELSE LET last == items[Len(items)]
         IN  IF last.linkedin THEN last.len
             ELSE LinkedinUrl(SubSeq(items, 1, Len(items) - 1))

RECURSIVE OtherContacts(_)
OtherContacts(items) ==
    IF items = <<>> THEN <<>>
    ELSE (IF Head(items).linkedin THEN <<>> ELSE << Head(items).len >>)
         \o OtherContacts(Tail(items))

add_header(nm, contact) ==
    LET others   == OtherContacts(contact)
        linkedin == LinkedinUrl(contact)
        text     == (IF others # <<>>
                     THEN JoinLen(others, 3) + (IF linkedin > 0 THEN 3 ELSE 0)
                     ELSE 0)
                    + linkedin
    IN  << Para("Name Style", nm), Para("ATS Normal", text) >>

add_professional_summary(summary) ==
    IF summary > 0
    THEN << Para("ATS Heading", 20), Para("ATS Normal", summary) >>
    ELSE <<>>

BulletParas(bullets) == [i \in 1..Len(bullets) |-> Para("ATS Normal", 2 + bullets[i])]

\* one job or internship: its heading line, its bullets, and a spacer unless
\* it is the last of its section
JobParas(job, isLast) ==
    << Para("ATS Normal",
            job.title + 3 + job.company + 3 + job.location + 3
            + job.start_date + 3 + job.end_date) >>
    \o BulletParas(job.responsibilities)
    \o BulletParas(job.achievements)
    \o (IF isLast THEN <<>> ELSE << Para("ATS Normal", 0) >>)

RECURSIVE JobsParas(_)
JobsParas(jobs) ==
    IF jobs = <<>> THEN <<>>
    ELSE JobParas(Head(jobs), Len(jobs) = 1) \o JobsParas(Tail(jobs))

add_work_experience_section(jobs) ==
    << Para("ATS Heading", 15) >> \o JobsParas(jobs)

add_internships_section(jobs) ==
    IF jobs = <<>> THEN <<>>
    ELSE << Para("ATS Heading", 11) >> \o JobsParas(jobs)

ProjectParas(p, isLast) ==
    << Para("ATS Normal",
            p.name
            + (IF p.start_date > 0 /\ p.end_date > 0
               THEN 3 + p.start_date + 3 + p.end_date ELSE 0)
            + (IF p.url > 0 THEN 3 + 12 ELSE 0)),
       Para("ATS Normal", p.description) >>
    \o (IF p.technologies # <<>>
        THEN << Para("ATS Normal", 14 + JoinLen(p.technologies, 2)) >>
        ELSE <<>>)
    \o (IF isLast THEN <<>> ELSE << Para("ATS Normal", 0) >>)

RECURSIVE ProjectsParas(_)
ProjectsParas(ps) ==
    IF ps = <<>> THEN <<>>
    ELSE ProjectParas(Head(ps), Len(ps) = 1) \o ProjectsParas(Tail(ps))

add_projects_section(ps) ==
    IF ps = <<>> THEN <<>>
    ELSE << Para("ATS Heading", 8) >> \o ProjectsParas(ps)

CertPara(c) ==
    Para("ATS Normal",
         c.name + 3 + c.issuer + 11 + c.date
         + (IF c.expiration_date > 0 THEN 12 + c.expiration_date ELSE 0)
         + (IF c.url > 0 THEN 3 + 6 ELSE 0))

add_certifications_section(cs) ==
    IF cs = <<>> THEN <<>>
    ELSE << Para("ATS Heading", 14) >> \o [i \in 1..Len(cs) |-> CertPara(cs[i])]

RECURSIVE SkillsText(_)
\* "category: skill, skill" per category, a line break between categories
SkillsText(cats) ==
    IF cats = <<>> THEN 0
    ELSE Len(Head(cats).category) + 2 + JoinLen(Head(cats).skills, 2)
         + (IF Len(cats) > 1 THEN 1 ELSE 0)
         + SkillsText(Tail(cats))

add_technical_skills_section(cats) ==
    << Para("ATS Heading", 16), Para("ATS Normal", SkillsText(cats)) >>

EduParas(e) ==
    << Para("ATS Normal",
            e.degree + 3 + e.institution + 3 + e.location + 3
            + e.graduation_date
            + (IF e.gpa > 0 THEN 7 + e.gpa + 1 ELSE 0)) >>
    \o (IF e.relevant_courses # <<>>
        THEN << Para("ATS Normal", 21 + JoinLen(e.relevant_courses, 2)) >>
        ELSE <<>>)

RECURSIVE EdusParas(_)
EdusParas(es) ==
    IF es = <<>> THEN <<>> ELSE EduParas(Head(es)) \o EdusParas(Tail(es))

add_education_section(es) ==
    << Para("ATS Heading", 9) >> \o EdusParas(es)

\* the eight _add_* calls of generate_resume and of the fit loop, in order
AddSections(d) ==
    add_header(d.name, d.contact_info)
    \o add_professional_summary(d.professional_summary)
    \o add_work_experience_section(d.work_experience)
    \o add_internships_section(d.internships)
    \o add_projects_section(d.projects)
    \o add_certifications_section(d.certifications)
    \o add_technical_skills_section(d.technical_skills)
    \o add_education_section(d.education)

----------------------------------------------------------------------------
(* _estimate_content_volume: the volume score, in tenths *)

JobVolume(job) ==
    1000 + 7 * SumSeq(job.responsibilities) + 7 * SumSeq(job.achievements)

RECURSIVE WorkVolume(_)
WorkVolume(jobs) ==
    IF jobs = <<>> THEN 0 ELSE JobVolume(Head(jobs)) + WorkVolume(Tail(jobs))

RECURSIVE SkillsVolume(_)
SkillsVolume(cats) ==
    IF cats = <<>> THEN 0
    ELSE 10 * Len(Head(cats).category) + 3 * SumSeq(Head(cats).skills)
         + SkillsVolume(Tail(cats))

\* a volume score that also weighs the projects
estimate_content_volume_CountsProjects(d) ==
    (IF d.professional_summary > 0 THEN 5 * d.professional_summary ELSE 0)
    + WorkVolume(d.work_experience)
    + SkillsVolume(d.technical_skills)
    + 800 * Len(d.education)
    + 500 * Len(d.projects)

estimate_content_volume(d) ==
    (IF d.professional_summary > 0 THEN 5 * d.professional_summary ELSE 0)
    + WorkVolume(d.work_experience)
    + SkillsVolume(d.technical_skills)
    + 800 * Len(d.education)

----------------------------------------------------------------------------
(* _adjust_font_and_margins: the tier of a volume score (in tenths) *)

Profile(n, h, b, m) == [name |-> n, heading |-> h, normal |-> b, margin |-> m]

\* the thresholds taken inclusively (>= for >)
TierProfile_InclusiveThresholds(volume) ==
    IF volume >= 18000 THEN
        Profile(max_font_size, min_font_size + U, min_font_size, min_margin)
    ELSE IF volume >= 15000 THEN
        Profile(max_font_size + U, min_font_size + U, min_font_size,
                (6 * MU) \div 10)
    ELSE IF volume >= 12000 THEN
        Profile(max_font_size + 2 * U, max_font_size - U, min_font_size,
                (7 * MU) \div 10)
    ELSE IF volume >= 9000 THEN
        Profile(max_font_size + 2 * U, max_font_size, min_font_size,
                (9 * MU) \div 10)
    ELSE
        Profile(max_font_size + 2 * U, max_font_size, min_font_size,
                (12 * MU) \div 10)

\* the heading size of the second band copied from the smallest band's
\* neighbour: max_font_size for min_font_size + 1
TierProfile_HeadingSlip(volume) ==
    IF volume > 18000 THEN
        Profile(max_font_size, min_font_size + U, min_font_size, min_margin)
    ELSE IF volume > 15000 THEN
        Profile(max_font_size + U, max_font_size, min_font_size,
                (6 * MU) \div 10)
    ELSE IF volume > 12000 THEN
        Profile(max_font_size + 2 * U, max_font_size - U, min_font_size,
                (7 * MU) \div 10)
    ELSE IF volume > 9000 THEN
        Profile(max_font_size + 2 * U, max_font_size, min_font_size,
                (9 * MU) \div 10)
    ELSE
        Profile(max_font_size + 2 * U, max_font_size, min_font_size,
                (12 * MU) \div 10)

TierProfile(volume) ==
    IF volume > 18000 THEN
        Profile(max_font_size, min_font_size + U, min_font_size, min_margin)
    ELSE IF volume > 15000 THEN
        Profile(max_font_size + U, min_font_size + U, min_font_size,
                (6 * MU) \div 10)
    ELSE IF volume > 12000 THEN
        Profile(max_font_size + 2 * U, max_font_size - U, min_font_size,
                (7 * MU) \div 10)
    ELSE IF volume > 9000 THEN
        Profile(max_font_size + 2 * U, max_font_size, min_font_size,
                (9 * MU) \div 10)
    ELSE
        Profile(max_font_size + 2 * U, max_font_size, min_font_size,
                (12 * MU) \div 10)

----------------------------------------------------------------------------
(* The shrink step of _check_and_adjust_for_page_fit *)

\* x * 0.95 and x * 0.9
Times095(x) == (x * 95) \div 100
Times09(x) == (x * 9) \div 10

\* the body size reduced like the other sizes
ShrinkProfile_BodyShrinks(p) ==
    Profile(Max(max_font_size, Times095(p.name)),
            Max(min_font_size + U, Times095(p.heading)),
            Times095(p.normal),
            Max(min_margin, Times09(p.margin)))

\* the two factors exchanged: sizes by 0.9, the margin by 0.95
ShrinkProfile_SwappedFactors(p) ==
    Profile(Max(max_font_size, Times09(p.name)),
            Max(min_font_size + U, Times09(p.heading)),
            min_font_size,
            Max(min_margin, Times095(p.margin)))

\* the margin widened by a tenth instead of narrowed
ShrinkProfile_WidensMargin(p) ==
    Profile(Max(max_font_size, Times095(p.name)),
            Max(min_font_size + U, Times095(p.heading)),
            min_font_size,
            Max(min_margin, p.margin + p.margin \div 10))

\* the heading size floored at the body size instead of 13
ShrinkProfile_HeadingFloorTwelve(p) ==
    Profile(Max(max_font_size, Times095(p.name)),
            Max(min_font_size, Times095(p.heading)),
            min_font_size,
            Max(min_margin, Times09(p.margin)))

\* the name size floored at the body size instead of 14
ShrinkProfile_NameFloorTwelve(p) ==
    Profile(Max(min_font_size, Times095(p.name)),
            Max(min_font_size + U, Times095(p.heading)),
            min_font_size,
            Max(min_margin, Times09(p.margin)))

\* the margin reduced without regard to min_margin
ShrinkProfile_NoMarginFloor(p) ==
    Profile(Max(max_font_size, Times095(p.name)),
            Max(min_font_size + U, Times095(p.heading)),
            min_font_size,
            Times09(p.margin))

ShrinkProfile(p) ==
    Profile(Max(max_font_size, Times095(p.name)),
            Max(min_font_size + U, Times095(p.heading)),
            min_font_size,
            Max(min_margin, Times09(p.margin)))

----------------------------------------------------------------------------
(* _estimate_page_count *)

\* the page height less the top margin only
UsableHeight_TopOnly(d) == 11 * 72 * HU - d.margin * (HU \div 20)

\* 11 in x 72 pt, less the top and bottom margins (a twip is 1/20 pt)
UsableHeight(d) == 11 * 72 * HU - 2 * d.margin * (HU \div 20)

\* int((8.5 - left - right) * 12), the margins in inches (a twip is 1/1440 in)
CharsPerLine(d) ==
    LET w == (17 * 1440) \div 2 - 2 * d.margin
    IN  IF w > 0 THEN (w * 12) \div 1440 ELSE 0

\* the wrapped lines taken as a remainder (% for //)
ParaHeight_Modulo(para, p, cpl) ==
    LET base == IF para.style = "ATS Heading"
                THEN (p.heading * 3 * (HU \div U)) \div 2
                ELSE IF para.style = "Name Style"
                THEN (p.name * 3 * (HU \div U)) \div 2
                ELSE (p.normal * 6 * (HU \div U)) \div 5
    IN  IF cpl > 0 THEN base * Max(1, para.len % cpl) ELSE base

ParaHeight(para, p, cpl) ==
    LET base == IF para.style = "ATS Heading"
                THEN (p.heading * 3 * (HU \div U)) \div 2
                ELSE IF para.style = "Name Style"
                THEN (p.name * 3 * (HU \div U)) \div 2
                ELSE (p.normal * 6 * (HU \div U)) \div 5
    IN  IF cpl > 0 THEN base * Max(1, para.len \div cpl) ELSE base

\* the heights of the paragraphs from the i-th on
RECURSIVE HeightFrom(_, _, _, _)
HeightFrom(paras, p, cpl, i) ==
    IF i > Len(paras) THEN 0
    ELSE ParaHeight(paras[i], p, cpl) + HeightFrom(paras, p, cpl, i + 1)

TotalHeight(paras, p, cpl) == HeightFrom(paras, p, cpl, 1)

\* total / usable without the floor of 1
estimate_page_count_NoFloor(d, p) ==
    [ num |-> TotalHeight(d.paragraphs, p, CharsPerLine(d)),
      den |-> UsableHeight(d) ]

\* max(1, total / usable), as the fraction num / den
estimate_page_count(d, p) ==
    LET total  == TotalHeight(d.paragraphs, p, CharsPerLine(d))
        usable == UsableHeight(d)
    IN  IF total > usable THEN [num |-> total, den |-> usable]
        ELSE [num |-> 1, den |-> 1]

\* page_count > 1
MoreThanOnePage(pages) == pages.num > pages.den

\* attempts <= max_attempts for attempts < max_attempts
ShouldShrink_OffByOne(pages, att) ==
    MoreThanOnePage(pages) /\ att <= max_attempts

\* the loop runs max_attempts times whatever the estimate
ShouldShrink_IgnoresEstimate(pages, att) == att < max_attempts

\* a loop that shrinks once before it looks at the estimate
ShouldShrink_AtLeastOnce(pages, att) ==
    att < max_attempts /\ (att = 0 \/ MoreThanOnePage(pages))

\* a loop that tolerates an estimate of up to 1.1 pages
ShouldShrink_TenPercentOver(pages, att) ==
    10 * pages.num > 11 * pages.den /\ att < max_attempts

\* the loop condition: page_count > 1 and attempts < max_attempts
ShouldShrink(pages, att) == MoreThanOnePage(pages) /\ att < max_attempts

\* the warning given whenever the attempts are used up
ShouldWarn_OnExhausted(pages, att) == att >= max_attempts

\* the warning condition after the loop: page_count > 1
ShouldWarn(pages, att) == MoreThanOnePage(pages)

----------------------------------------------------------------------------
(* The generator's state, as records *)

Data ==
    [ name |-> name, contact_info |-> contact_info,
      professional_summary |-> professional_summary,
      work_experience |-> work_experience,
      technical_skills |-> technical_skills, education |-> education,
      internships |-> internships, projects |-> projects,
      certifications |-> certifications ]

CurrentProfile ==
    Profile(name_font_size, heading_font_size, normal_font_size, margin_size)

SetProfile(p) ==
    /\ name_font_size' = p.name
    /\ heading_font_size' = p.heading
    /\ normal_font_size' = p.normal
    /\ margin_size' = p.margin

\* the diagnostics of a pass: the profile, the attempts, the estimate
PassResult ==
    [ profile |-> CurrentProfile, attempts |-> attempts,
      page_count |-> page_count ]

NoPages == [num |-> 0, den |-> 1]

\* a file: absent, or present with the document saved in it (if any)
NoFile == [exists |-> FALSE, content |-> <<>>]
EmptyFile == [exists |-> TRUE, content |-> <<>>]
SavedFile(d) == [exists |-> TRUE, content |-> << d >>]

\* a /generate request that has not arrived: no data extracted, no handle on
\* the JSON file, nothing loaded, no resume, no response
IdleRequest ==
    [ pc |-> "idle", data |-> <<>>, unlinked |-> FALSE, loaded |-> <<>>,
      resume |-> <<>>, response |-> "none" ]

\* no JSON document is being loaded
NoJsonDocument == [present |-> {}, data |-> <<>>]

\* temp_resume_data.json: absent; or present with the size of its text and,
\* when the text is one valid JSON document, the data it holds
NoJsonFile == [exists |-> FALSE, size |-> 0, content |-> <<>>]

----------------------------------------------------------------------------
(* Construction: ResumeGenerator(name, contact_info, professional_summary) *)

Init ==
    /\ name = NameSample
    /\ contact_info = ContactSample
    /\ professional_summary \in SummarySamples
    /\ work_experience = <<>>
    /\ technical_skills = <<>>
    /\ education = <<>>
    /\ internships = <<>>
    /\ projects = <<>>
    /\ certifications = <<>>
    /\ name_font_size = max_font_size + 2 * U
    /\ heading_font_size = max_font_size
    /\ normal_font_size = min_font_size
    /\ margin_size = default_margin
    /\ doc = NewDocument(max_font_size + 2 * U, max_font_size, min_font_size,
                         default_margin)
    /\ pc = "idle"
    /\ attempts = 0
    /\ page_count = NoPages
    /\ temp_file = NoFile
    /\ output_file = NoFile
    /\ warning = FALSE
    /\ measures = 0
    /\ previous = <<>>
    /\ requests = [r \in Requests |-> IdleRequest]
    /\ json_file = NoJsonFile
    /\ fault = "none"
    /\ json_doc = NoJsonDocument
    /\ loader = "none"

----------------------------------------------------------------------------
(* The add_* methods *)

RECURSIVE HasKey(_, _)
HasKey(cats, category) ==
    IF cats = <<>> THEN FALSE
    ELSE Head(cats).category = category \/ HasKey(Tail(cats), category)

\* a list of (category, skills) pairs instead of a dict
DictSet_AlwaysAppends(cats, category, skills) ==
    Append(cats, [category |-> category, skills |-> skills])

\* self.technical_skills[category] = skills on an insertion-ordered dict
DictSet(cats, category, skills) ==
    IF HasKey(cats, category)
    THEN [i \in 1..Len(cats) |->
            IF cats[i].category = category
            THEN [category |-> category, skills |-> skills] ELSE cats[i]]
    ELSE Append(cats, [category |-> category, skills |-> skills])

EntryCount ==
    Len(work_experience) + Len(technical_skills) + Len(education)
    + Len(internships) + Len(projects) + Len(certifications)

add_work_experience(job) ==
    /\ pc = "idle"
    /\ EntryCount < MaxEntries
    /\ work_experience' = Append(work_experience, job)
    /\ UNCHANGED << name, contact_info, professional_summary, technical_skills,
                    education, internships, projects, certifications,
                    profileVars, doc, fitVars, outVars, bookVars >>
    /\ UNCHANGED << fault, webVars, cliVars >>

add_technical_skills(category, skills) ==
    /\ pc = "idle"
    /\ HasKey(technical_skills, category)
       \/ EntryCount < MaxEntries
    /\ technical_skills' = DictSet(technical_skills, category, skills)
    /\ UNCHANGED << name, contact_info, professional_summary, work_experience,
                    education, internships, projects, certifications,
                    profileVars, doc, fitVars, outVars, bookVars >>
    /\ UNCHANGED << fault, webVars, cliVars >>

add_education(edu) ==
    /\ pc = "idle"
    /\ EntryCount < MaxEntries
    /\ education' = Append(education, edu)
    /\ UNCHANGED << name, contact_info, professional_summary, work_experience,
                    technical_skills, internships, projects, certifications,
                    profileVars, doc, fitVars, outVars, bookVars >>
    /\ UNCHANGED << fault, webVars, cliVars >>

add_internship(job) ==
    /\ pc = "idle"
    /\ EntryCount < MaxEntries
    /\ internships' = Append(internships, job)
    /\ UNCHANGED << name, contact_info, professional_summary, work_experience,
                    technical_skills, education, projects, certifications,
                    profileVars, doc, fitVars, outVars, bookVars >>
    /\ UNCHANGED << fault, webVars, cliVars >>

add_project(project) ==
    /\ pc = "idle"
    /\ EntryCount < MaxEntries
    /\ projects' = Append(projects, project)
    /\ UNCHANGED << name, contact_info, professional_summary, work_experience,
                    technical_skills, education, internships, certifications,
                    profileVars, doc, fitVars, outVars, bookVars >>
    /\ UNCHANGED << fault, webVars, cliVars >>

add_certification(cert) ==
    /\ pc = "idle"
    /\ EntryCount < MaxEntries
    /\ certifications' = Append(certifications, cert)
    /\ UNCHANGED << name, contact_info, professional_summary, work_experience,
                    technical_skills, education, internships, projects,
                    profileVars, doc, fitVars, outVars, bookVars >>
    /\ UNCHANGED << fault, webVars, cliVars >>

----------------------------------------------------------------------------
(* generate_resume *)

\* self.doc not replaced: the margins and styles are set again on the
\* document the instance holds already
AdjustFontAndMargins_KeepsDocument ==
    /\ pc \in {"idle", "accepted"}
    /\ LET p == TierProfile(estimate_content_volume(Data))
       IN  /\ SetProfile(p)
           /\ doc' = [NewDocument(p.name, p.heading, p.normal, p.margin)
                        EXCEPT !.paragraphs = doc.paragraphs]
    /\ pc' = "adjusted"
    /\ warning' = FALSE
    /\ measures' = 0
    /\ previous' = IF pc = "accepted" THEN << PassResult >> ELSE <<>>
    /\ UNCHANGED << dataVars, attempts, page_count, temp_file, output_file >>
    /\ UNCHANGED << fault, webVars, cliVars >>

\* lines 649-655: _adjust_font_and_margins picks the tier of the volume
\* score and replaces self.doc by a fresh document
AdjustFontAndMargins ==
    /\ pc \in {"idle", "accepted"}
    /\ LET p == TierProfile(estimate_content_volume(Data))
       IN  /\ SetProfile(p)
           /\ doc' = NewDocument(p.name, p.heading, p.normal, p.margin)
    /\ pc' = "adjusted"
    /\ warning' = FALSE
    /\ measures' = 0
    /\ previous' = IF pc = "accepted" THEN << PassResult >> ELSE <<>>
    /\ UNCHANGED << dataVars, attempts, page_count, temp_file, output_file >>
    /\ UNCHANGED << fault, webVars, cliVars >>

\* lines 657-665 and 543-556: the eight sections are added to the fresh
\* document; the document is saved to a new temporary file, loaded back and
\* measured; attempts starts at 0
RenderAndMeasure ==
    /\ pc = "adjusted"
    /\ \E d \in {[doc EXCEPT !.paragraphs = @ \o AddSections(Data)]} :
           /\ doc' = d
           /\ temp_file' = SavedFile(d)
           /\ page_count' = estimate_page_count(d, CurrentProfile)
    /\ attempts' = 0
    /\ measures' = measures + 1
    /\ pc' = "measured"
    /\ UNCHANGED << dataVars, profileVars, outVars, previous >>
    /\ UNCHANGED << fault, webVars, cliVars >>

\* a shrink that keeps the document of the attempt before
Shrink_KeepsDocument ==
    /\ pc = "measured"
    /\ ShouldShrink(page_count, attempts)
    /\ attempts' = attempts + 1
    /\ SetProfile(ShrinkProfile(CurrentProfile))
    /\ pc' = "shrunk"
    /\ UNCHANGED << dataVars, doc, page_count, temp_file, outVars, bookVars >>
    /\ UNCHANGED << fault, webVars, cliVars >>

\* lines 558-571: one more attempt; the sizes and the margin are reduced and
\* self.doc is replaced by a fresh document
Shrink ==
    /\ pc = "measured"
    /\ ShouldShrink(page_count, attempts)
    /\ attempts' = attempts + 1
    /\ LET p == ShrinkProfile(CurrentProfile)
       IN  /\ SetProfile(p)
           /\ doc' = NewDocument(p.name, p.heading, p.normal, p.margin)
    /\ pc' = "shrunk"
    /\ UNCHANGED << dataVars, page_count, temp_file, outVars,
                    bookVars >>
    /\ UNCHANGED << fault, webVars, cliVars >>

\* a measurement of the document loaded for the attempt before (no reload)
RegenerateAndMeasure_StaleCheck ==
    /\ pc = "shrunk"
    /\ \E d \in {[doc EXCEPT !.paragraphs = @ \o AddSections(Data)]} :
           /\ doc' = d
           /\ temp_file' = SavedFile(d)
    /\ page_count' = estimate_page_count(temp_file.content[1], CurrentProfile)
    /\ measures' = measures + 1
    /\ pc' = "measured"
    /\ UNCHANGED << dataVars, profileVars, attempts, outVars, previous >>
    /\ UNCHANGED << fault, webVars, cliVars >>

\* lines 573-586: the content is regenerated, saved to the temporary file,
\* loaded back and measured
RegenerateAndMeasure ==
    /\ pc = "shrunk"
    /\ \E d \in {[doc EXCEPT !.paragraphs = @ \o AddSections(Data)]} :
           /\ doc' = d
           /\ temp_file' = SavedFile(d)
           /\ page_count' = estimate_page_count(d, CurrentProfile)
    /\ measures' = measures + 1
    /\ pc' = "measured"
    /\ UNCHANGED << dataVars, profileVars, attempts, outVars, previous >>
    /\ UNCHANGED << fault, webVars, cliVars >>

\* lines 592-600 and 670-671: the loop is left; the warning is printed if
\* the estimate is still above one page, the temporary file is removed, the
\* document is saved to the output file and generate_resume returns
Accept ==
    /\ pc = "measured"
    /\ ~ ShouldShrink(page_count, attempts)
    /\ warning' = ShouldWarn(page_count, attempts)
    /\ temp_file' = NoFile
    /\ output_file' = SavedFile(doc)
    /\ pc' = "accepted"
    /\ UNCHANGED << dataVars, profileVars, doc, attempts, page_count,
                    measures, previous >>
    /\ UNCHANGED << fault, webVars, cliVars >>

Next ==
    \/ \E job \in WorkSamples : add_work_experience(job)
    \/ \E s \in SkillSamples : add_technical_skills(s.category, s.skills)
    \/ \E edu \in EducationSamples : add_education(edu)
    \/ \E job \in InternshipSamples : add_internship(job)
    \/ \E project \in ProjectSamples : add_project(project)
    \/ \E cert \in CertificationSamples : add_certification(cert)
    \/ AdjustFontAndMargins
    \/ RenderAndMeasure
    \/ Shrink
    \/ RegenerateAndMeasure
    \/ Accept

Spec == Init /\ [][Next]_vars

\* the engine is single-threaded and synchronous: a pass that has started
\* runs to its end
FairSpec == Spec /\ WF_vars(RenderAndMeasure \/ Shrink
                            \/ RegenerateAndMeasure \/ Accept)

----------------------------------------------------------------------------
(* The pass when the file system fails: an exception raised inside *)
(* _check_and_adjust_for_page_fit is caught nowhere in the generator and  *)
(* leaves generate_resume                                                 *)

\* lines 657-665 and 543-550: the sections are added; then the creation of
\* the temporary file (543), the save into it (547) or the load from it
\* (550) raises
RenderFails(stage) ==
    /\ pc = "adjusted"
    /\ \E d \in {[doc EXCEPT !.paragraphs = @ \o AddSections(Data)]} :
           /\ doc' = d
           /\ temp_file' = CASE stage = "create" -> temp_file
                             [] stage = "save" -> EmptyFile
                             [] stage = "load" -> SavedFile(d)
    /\ fault' = stage
    /\ pc' = "failed"
    /\ UNCHANGED << dataVars, profileVars, attempts, page_count, outVars,
                    bookVars, webVars, cliVars >>

\* a retry of the same profile after a failed save or load
RegenerateFails_Retries(stage) ==
    /\ pc = "shrunk"
    /\ fault = "none"
    /\ fault' = stage
    /\ UNCHANGED << dataVars, profileVars, doc, fitVars, outVars, bookVars,
                    webVars, cliVars >>

\* lines 573-585: the content is regenerated; then the save into the
\* temporary file (584), which may or may not have emptied it, or the load
\* from it (585) raises
RegenerateFails(stage) ==
    /\ pc = "shrunk"
    /\ \E d \in {[doc EXCEPT !.paragraphs = @ \o AddSections(Data)]} :
           /\ doc' = d
           /\ \/ stage = "save" /\ temp_file' \in {temp_file, EmptyFile}
              \/ stage = "load" /\ temp_file' = SavedFile(d)
    /\ fault' = stage
    /\ pc' = "failed"
    /\ UNCHANGED << dataVars, profileVars, attempts, page_count, outVars,
                    bookVars, webVars, cliVars >>

\* lines 592-600: the loop is left and the warning printed if due; then the
\* removal of the temporary file (597) or the save of the output file
\* (600), which may or may not have created it, raises
FinishFails(stage) ==
    /\ pc = "measured"
    /\ ~ ShouldShrink(page_count, attempts)
    /\ warning' = ShouldWarn(page_count, attempts)
    /\ \/ /\ stage = "unlink"
          /\ UNCHANGED << temp_file, output_file >>
       \/ /\ stage = "output"
          /\ temp_file' = NoFile
          /\ output_file' \in {output_file, EmptyFile}
    /\ fault' = stage
    /\ pc' = "failed"
    /\ UNCHANGED << dataVars, profileVars, doc, attempts, page_count,
                    bookVars, webVars, cliVars >>

FailNext ==
    \/ Next
    \/ \E stage \in {"create", "save", "load"} : RenderFails(stage)
    \/ \E stage \in {"save", "load"} : RegenerateFails(stage)
    \/ \E stage \in {"unlink", "output"} : FinishFails(stage)

FailSpec == Init /\ [][FailNext]_vars

----------------------------------------------------------------------------
(* The web application: POST /generate, served by concurrent threads *)

\* the entries kept by "if resp and resp.strip()" and its likes
NonBlank(xs) == SelectSeq(xs, LAMBDA x : x > 0)

StripBullets(jobs) ==
    [i \in 1..Len(jobs) |->
        [jobs[i] EXCEPT !.responsibilities = NonBlank(@),
                        !.achievements = NonBlank(@)]]

\* lines 137-147: a category is kept when it has a label and a skill, in a
\* dict keyed by the label
RECURSIVE FormSkills(_, _)
FormSkills(cats, acc) ==
    IF cats = <<>> THEN acc
    ELSE LET c == Head(cats)
             skills == NonBlank(c.skills)
         IN  FormSkills(Tail(cats),
                        IF c.category # "" /\ skills # <<>>
                        THEN DictSet(acc, c.category, skills) ELSE acc)

extract_resume_data_from_form(form) ==
    [ name |-> form.name, contact_info |-> form.contact_info,
      professional_summary |-> form.professional_summary,
      work_experience |-> StripBullets(form.work),
      internships |-> StripBullets(form.internships),
      projects |-> [i \in 1..Len(form.projects) |->
                      [form.projects[i] EXCEPT !.technologies = NonBlank(@)]],
      technical_skills |-> FormSkills(form.skills, <<>>),
      certifications |-> form.certifications,
      education |-> [i \in 1..Len(form.education) |->
                       [form.education[i]
                            EXCEPT !.relevant_courses = NonBlank(@)]] ]

\* the length of the JSON text of the data, up to the fixed syntax: the
\* text it carries
JsonSize(d) ==
    LET paras == AddSections(
                   [d EXCEPT !.name = Max(0, @),
                             !.contact_info =
                                 [i \in 1..Len(@) |->
                                    [@[i] EXCEPT !.len = Max(0, @)]]])
    IN  SumSeq([i \in 1..Len(paras) |-> paras[i].len])

\* generate_resume on a generator holding the data: the tier profile, then
\* the fit loop to its end
RECURSIVE FitLoop(_, _, _)
FitLoop(d, p, att) ==
    LET document == [NewDocument(p.name, p.heading, p.normal, p.margin)
                        EXCEPT !.paragraphs = AddSections(d)]
        pages == estimate_page_count(document, p)
    IN  IF ShouldShrink(pages, att)
        THEN FitLoop(d, ShrinkProfile(p), att + 1)
        ELSE [ name |-> d.name, profile |-> p, attempts |-> att,
               page_count |-> pages, warning |-> ShouldWarn(pages, att) ]

\* create_resume_from_json, once the data is loaded: the resume of the data
create_resume_from_json(d) ==
    FitLoop(d, TierProfile(estimate_content_volume(d)), 0)

SetRequest(r, rec) == requests' = [requests EXCEPT ![r] = rec]

\* line 224: the request arrives and its form is extracted
Submit(r, form) ==
    /\ requests[r].pc = "idle"
    /\ SetRequest(r, [requests[r] EXCEPT
                        !.pc = "extracted",
                        !.data = << extract_resume_data_from_form(form) >>])
    /\ UNCHANGED << json_file, engineVars, cliVars >>

\* lines 227-228: open(json_file, 'w') creates the file or truncates it
OpenJson(r) ==
    /\ requests[r].pc = "extracted"
    /\ json_file' = [exists |-> TRUE, size |-> 0, content |-> <<>>]
    /\ SetRequest(r, [requests[r] EXCEPT !.pc = "opened",
                                         !.unlinked = FALSE])
    /\ UNCHANGED << engineVars, cliVars >>

\* line 229: json.dump and the close of the file write the text at offset 0
\* of the file the request opened: nothing of it is seen under the path if
\* the file was removed meanwhile, and a longer text written meanwhile keeps
\* its tail, which leaves no valid JSON document
DumpJson(r) ==
    /\ requests[r].pc = "opened"
    /\ LET d == requests[r].data[1]
       IN  json_file' =
              IF requests[r].unlinked THEN json_file
              ELSE [ exists |-> TRUE,
                     size |-> Max(json_file.size, JsonSize(d)),
                     content |-> IF JsonSize(d) >= json_file.size
                                 THEN << d >> ELSE <<>> ]
    /\ SetRequest(r, [requests[r] EXCEPT !.pc = "written"])
    /\ UNCHANGED << engineVars, cliVars >>

\* line 787
required_fields ==
    {"name", "contact_info", "work_experience", "technical_skills",
     "education"}

\* line 232, load_resume_from_json: the file is read; a missing file, a
\* text that is no JSON document or a document without a required field
\* ends in sys.exit(1), which the handler's "except Exception" does not catch
LoadJson(r) ==
    /\ requests[r].pc = "written"
    /\ IF /\ json_file.exists
          /\ json_file.content # <<>>
          /\ \A field \in required_fields :
                 field \in DOMAIN json_file.content[1]
       THEN SetRequest(r, [requests[r] EXCEPT !.pc = "loaded",
                                               !.loaded = json_file.content])
       ELSE SetRequest(r, [requests[r] EXCEPT !.pc = "exited"])
    /\ UNCHANGED << json_file, engineVars, cliVars >>

\* generate_resume on data with a None in it: self.name.replace (line 652)
\* or item.lower() on a contact item (line 232) raises AttributeError
GenerateRaises(d) ==
    \/ d.name = None
    \/ \E i \in 1..Len(d.contact_info) : d.contact_info[i].len = None

\* line 232, the rest of create_resume_from_json: a generator is built from
\* the loaded data and the resume is generated; an exception raised on the
\* way is caught at lines 248-250, which flash the error and return without
\* reaching os.remove
Generate(r) ==
    /\ requests[r].pc = "loaded"
    /\ IF GenerateRaises(requests[r].loaded[1])
       THEN SetRequest(r, [requests[r] EXCEPT !.pc = "done",
                                               !.response = "error"])
       ELSE SetRequest(r, [requests[r] EXCEPT
                             !.pc = "generated",
                             !.resume = << create_resume_from_json(
                                               requests[r].loaded[1]) >>])
    /\ UNCHANGED << json_file, engineVars, cliVars >>

\* lines 235-250: the JSON copy is written under the person's name, the
\* temporary JSON file is removed and the success page is returned; a file
\* that is no longer there raises, and the handler flashes the error
Finish(r) ==
    /\ requests[r].pc = "generated"
    /\ IF json_file.exists
       THEN /\ json_file' = NoJsonFile
            /\ requests' =
                 [q \in Requests |->
                    IF q = r
                    THEN [requests[q] EXCEPT !.pc = "done",
                                             !.response = "success"]
                    ELSE IF requests[q].pc = "opened"
                    THEN [requests[q] EXCEPT !.unlinked = TRUE]
                    ELSE requests[q]]
       ELSE /\ json_file' = json_file
            /\ SetRequest(r, [requests[r] EXCEPT !.pc = "done",
                                                  !.response = "error"])
    /\ UNCHANGED << engineVars, cliVars >>

WebInit == Init /\ professional_summary = 0

WebNext ==
    \/ \E r \in Requests, form \in WebFormSamples : Submit(r, form)
    \/ \E r \in Requests : OpenJson(r)
    \/ \E r \in Requests : DumpJson(r)
    \/ \E r \in Requests : LoadJson(r)
    \/ \E r \in Requests : Generate(r)
    \/ \E r \in Requests : Finish(r)

WebSpec == WebInit /\ [][WebNext]_vars

----------------------------------------------------------------------------
(* create_resume_from_json on a JSON document *)

\* a JSON document: the required keys it has and the values under its keys
JsonDocument(d, keys) ==
    [ present |-> keys,
      data |-> [ d EXCEPT
          !.name = IF "name" \in keys THEN @ ELSE 0,
          !.contact_info = IF "contact_info" \in keys THEN @ ELSE <<>>,
          !.work_experience = IF "work_experience" \in keys THEN @ ELSE <<>>,
          !.technical_skills = IF "technical_skills" \in keys THEN @ ELSE <<>>,
          !.education = IF "education" \in keys THEN @ ELSE <<>> ] ]

\* the documents of the sample people, with every subset of the required keys
JsonSamples ==
    { JsonDocument(extract_resume_data_from_form(form), keys) :
        form \in FormSamples, keys \in SUBSET required_fields }

\* a validation that has forgotten the last required field
load_resume_from_json_SkipsEducation(j) ==
    IF (required_fields \ {"education"}) \subseteq j.present
    THEN << j.data >> ELSE <<>>

\* lines 780-799: the data of the document, or nothing when a required field
\* is missing: the ValueError is caught at 797 and the process exits
load_resume_from_json(j) ==
    IF \A field \in required_fields : field \in j.present
    THEN << j.data >> ELSE <<>>

\* lines 901-971: the document is loaded; sys.exit(1) ends the call, or a
\* generator is constructed and given every entry of the data
CreateResumeFromJson ==
    /\ loader = "start"
    /\ LET loaded == load_resume_from_json(json_doc)
       IN  IF loaded = <<>>
           THEN /\ loader' = "exited"
                /\ UNCHANGED << dataVars, pc >>
           ELSE /\ loader' = "built"
                /\ name' = loaded[1].name
                /\ contact_info' = loaded[1].contact_info
                /\ professional_summary' = loaded[1].professional_summary
                /\ work_experience' = loaded[1].work_experience
                /\ internships' = loaded[1].internships
                /\ projects' = loaded[1].projects
                /\ technical_skills' = loaded[1].technical_skills
                /\ certifications' = loaded[1].certifications
                /\ education' = loaded[1].education
                /\ pc' = "idle"
    /\ UNCHANGED << profileVars, doc, attempts, page_count, temp_file,
                    outVars, bookVars, fault, json_doc, webVars >>

\* no generator exists before the document is loaded
JsonInit ==
    /\ json_doc \in JsonSamples
    /\ loader = "start"
    /\ pc = "unbuilt"
    /\ name = 0
    /\ contact_info = <<>>
    /\ professional_summary = 0
    /\ work_experience = <<>>
    /\ technical_skills = <<>>
    /\ education = <<>>
    /\ internships = <<>>
    /\ projects = <<>>
    /\ certifications = <<>>
    /\ name_font_size = max_font_size + 2 * U
    /\ heading_font_size = max_font_size
    /\ normal_font_size = min_font_size
    /\ margin_size = default_margin
    /\ doc = NewDocument(max_font_size + 2 * U, max_font_size, min_font_size,
                         default_margin)
    /\ attempts = 0
    /\ page_count = NoPages
    /\ temp_file = NoFile
    /\ output_file = NoFile
    /\ warning = FALSE
    /\ measures = 0
    /\ previous = <<>>
    /\ fault = "none"
    /\ requests = [r \in Requests |-> IdleRequest]
    /\ json_file = NoJsonFile

\* line 974: generate_resume runs once on the generator that was built
JsonNext ==
    \/ CreateResumeFromJson
    \/ pc = "idle" /\ AdjustFontAndMargins
    \/ RenderAndMeasure
    \/ Shrink
    \/ RegenerateAndMeasure
    \/ Accept

JsonSpec == JsonInit /\ [][JsonNext]_vars

----------------------------------------------------------------------------
(* Claims about the engine *)

Volume == estimate_content_volume(Data)

\* C1: tier selection maps the volume score to one of five fixed profiles
\* with strict lower thresholds: above 1800 (14, 13, 12, 0.5in); above 1500
\* up to 1800 (15, 13, 12, 0.6in); above 1200 up to 1500 (16, 13, 12, 0.7in);
\* above 900 up to 1200 (16, 14, 12, 0.9in); up to 900 (16, 14, 12, 1.2in).
\* The boundaries 900, 1200, 1500 and 1800 fall in the lower band.
C1_TierTable ==
    pc = "adjusted" =>
        /\ Volume > 18000 =>
               CurrentProfile = Profile(140000, 130000, 120000, 5000)
        /\ (Volume > 15000 /\ Volume <= 18000) =>
               CurrentProfile = Profile(150000, 130000, 120000, 6000)
        /\ (Volume > 12000 /\ Volume <= 15000) =>
               CurrentProfile = Profile(160000, 130000, 120000, 7000)
        /\ (Volume > 9000 /\ Volume <= 12000) =>
               CurrentProfile = Profile(160000, 140000, 120000, 9000)
        /\ Volume <= 9000 =>
               CurrentProfile = Profile(160000, 140000, 120000, 12000)

\* a document whose volume is exactly 1800 has just been given its tier
C1_Witness ==
    /\ pc = "adjusted"
    /\ Volume = 18000
    /\ CurrentProfile = Profile(150000, 130000, 120000, 6000)

\* volume scores (in tenths) around every threshold and in every band
ProbeVolumes ==
    {0, 4500, 8999, 9000, 9001, 10500, 11999, 12000, 12001, 13500, 14999,
     15000, 15001, 16500, 17999, 18000, 18001, 25000}

NoLarger(p, q) ==
    /\ p.margin <= q.margin
    /\ p.name <= q.name
    /\ p.heading <= q.heading

\* C2: tier selection is monotonic: of two volume scores, the profile
\* selected for the higher one has margin, name size and heading size no
\* larger than those of the profile selected for the lower one.
C2_TierMonotonic ==
    pc = "adjusted" =>
        \A v \in ProbeVolumes :
            /\ v <= Volume => NoLarger(CurrentProfile, TierProfile(v))
            /\ Volume <= v => NoLarger(TierProfile(v), CurrentProfile)

\* a document in a middle band: probes lie strictly below and above it
C2_Witness ==
    /\ pc = "adjusted"
    /\ Volume > 12000
    /\ Volume <= 15000
    /\ margin_size = 7000

\* C3: in every state of a generation pass, from tier selection through any
\* number of shrink attempts to acceptance, the body font size is 12pt.
C3_BodyPinned == normal_font_size = 12 * U

\* a pass accepted after three shrink attempts
C3_Witness ==
    /\ pc = "accepted"
    /\ attempts = 3
    /\ normal_font_size = 12 * U

\* C4: every generation pass terminates and reaches acceptance after at most
\* 4 render-and-measure passes, 1 initial and at most 3 after a shrink; the
\* attempt counter never exceeds 3.
C4_Terminates ==
    /\ [](attempts <= 3 /\ measures <= 4)
    /\ [](pc = "accepted" => measures = attempts + 1)
    /\ [](pc = "adjusted" => <>(pc = "accepted"))

\* a pass that needed all four measurements
C4_Witness ==
    /\ pc = "accepted"
    /\ measures = 4
    /\ attempts = 3

\* x2 = max(floor, x * num / den), stated without division
IsMaxOfScaled(x2, floor, x, num, den) ==
    /\ x2 >= floor
    /\ x2 * den >= x * num
    /\ x2 = floor \/ x2 * den = x * num

\* C5: a shrink step computes name = max(14, name * 0.95), heading =
\* max(13, heading * 0.95), body = 12, margin = max(0.5in, margin * 0.9)
\* from the old profile, and changes nothing else of the profile.
C5_ShrinkRule ==
    [][ pc' = "shrunk" =>
            /\ IsMaxOfScaled(name_font_size', 14 * U, name_font_size, 95, 100)
            /\ IsMaxOfScaled(heading_font_size', 13 * U, heading_font_size,
                             95, 100)
            /\ normal_font_size' = 12 * U
            /\ IsMaxOfScaled(margin_size', MU \div 2, margin_size, 9, 10)
      ]_vars

\* a first shrink from the largest tier: no floor is hit
C5_Witness ==
    /\ pc = "shrunk"
    /\ attempts = 1
    /\ CurrentProfile = Profile(152000, 133000, 120000, 10800)

\* C6: the size profile stays within its bounds: the margin in [0.5in, 2in],
\* heading and body sizes in [12pt, 14pt], the name size at most 16pt.
C6_ProfileBounds ==
    /\ margin_size >= MU \div 2
    /\ margin_size <= 2 * MU
    /\ heading_font_size >= 12 * U
    /\ heading_font_size <= 14 * U
    /\ normal_font_size >= 12 * U
    /\ normal_font_size <= 14 * U
    /\ name_font_size <= 16 * U

\* three shrinks of a profile that is at the floors already
C6_Witness ==
    /\ pc = "accepted"
    /\ attempts = 3
    /\ margin_size = MU \div 2
    /\ heading_font_size = 13 * U

\* C7: if the estimate is still above one page after 3 shrink attempts, the
\* current layout is accepted and written, the overflow warning is given
\* and the pass succeeds; the warning is given only when the final estimate
\* is above one page.
C7_OverflowAccepted ==
    /\ (pc = "measured" /\ MoreThanOnePage(page_count) /\ attempts = 3) =>
           ENABLED Accept
    /\ pc = "accepted" =>
           /\ output_file = SavedFile(doc)
           /\ warning <=> MoreThanOnePage(page_count)
           /\ warning => attempts = 3

\* a pass accepted with the warning
C7_Witness ==
    /\ pc = "accepted"
    /\ warning
    /\ attempts = 3
    /\ MoreThanOnePage(page_count)
    /\ output_file.exists

Sized == pc \in {"adjusted", "shrunk"}
Rendered == pc = "measured"
Accepted == pc = "accepted"

\* C8: the fitter follows Sized -> Rendered -> (Accepted | Sized): a shrink
\* is taken only from a Rendered state whose estimate is above 1 and whose
\* attempt count is below 3; Accepted is entered only from a Rendered state
\* whose estimate is at most 1 or whose attempt count is 3; Accepted ends
\* the pass, so no shrink follows an estimate of at most 1.
C8_StateMachine ==
    [][ /\ (pc' = "shrunk" /\ pc # "shrunk") =>
               /\ Rendered
               /\ MoreThanOnePage(page_count)
               /\ attempts < 3
               /\ attempts' = attempts + 1
        /\ (CurrentProfile' # CurrentProfile) =>
               pc' \in {"adjusted", "shrunk"} /\ pc' # pc
        /\ (Accepted' /\ ~ Accepted) =>
               /\ Rendered
               /\ ~ MoreThanOnePage(page_count) \/ attempts = 3
        /\ (Rendered /\ ~ MoreThanOnePage(page_count)) =>
               Rendered' \/ Accepted'
        /\ (Rendered' /\ ~ Rendered) => Sized
        /\ Accepted => (Accepted' \/ pc' = "adjusted")
        /\ (Accepted /\ pc' = "adjusted") => attempts' = attempts
      ]_vars

\* a pass accepted because the second shrink brought the estimate to 1
C8_Witness ==
    /\ Accepted
    /\ attempts = 2
    /\ ~ MoreThanOnePage(page_count)

\* C9: running the engine twice on an identical document, also twice on the
\* same generator instance, yields an identical final size profile, number
\* of shrink attempts and page estimate.
C9_Idempotent ==
    (pc = "accepted" /\ previous # <<>>) => PassResult = previous[1]

\* a second pass on an instance whose first pass left a shrunk profile
C9_Witness ==
    /\ pc = "accepted"
    /\ previous # <<>>
    /\ attempts >= 1
    /\ CurrentProfile # TierProfile(Volume)

----------------------------------------------------------------------------
(* Claims about the estimators *)

\* C14: the volume score is 0.5 per character of the summary, plus for each
\* work entry and each internship entry 100 plus 0.7 per character of its
\* responsibilities and achievements, plus for each skill category the
\* length of its label plus 0.3 per character of its skills, plus 80 for
\* each education entry (all in tenths here).
C14_VolumeFormula ==
    Volume = 5 * professional_summary
             + WorkVolume(work_experience)
             + WorkVolume(internships)
             + SkillsVolume(technical_skills)
             + 800 * Len(education)

WithoutProjects(d) == [d EXCEPT !.projects = <<>>, !.certifications = <<>>]

\* C15: projects and certifications are not counted in the volume score:
\* the score is that of the document without them, one more project or
\* certification leaves it unchanged, and the tier selected at the start of
\* a pass is the tier of the document without them.
C15_ProjectsNotCounted ==
    /\ Volume = estimate_content_volume(WithoutProjects(Data))
    /\ \A project \in ProjectSamples :
          estimate_content_volume(
              [Data EXCEPT !.projects = Append(@, project)]) = Volume
    /\ \A cert \in CertificationSamples :
          estimate_content_volume(
              [Data EXCEPT !.certifications = Append(@, cert)]) = Volume
    /\ pc = "adjusted" =>
          CurrentProfile
              = TierProfile(estimate_content_volume(WithoutProjects(Data)))

\* a pass has started on a document with a project and a certification
\* that is not in the lowest band
C15_Witness ==
    /\ pc = "adjusted"
    /\ projects # <<>>
    /\ certifications # <<>>
    /\ Volume > 9000

\* the empty document of the current profile
EmptyDocument ==
    NewDocument(name_font_size, heading_font_size, normal_font_size,
                margin_size)

AtLeastOnePage(pages) == pages.den > 0 /\ pages.num >= pages.den

\* C16: the page estimate is never below 1 and never zero: every estimate
\* made is at least 1, and so is the estimate of the empty block list under
\* every profile reached.
C16_EstimateAtLeastOne ==
    /\ page_count # NoPages => AtLeastOnePage(page_count)
    /\ pc = "measured" =>
          AtLeastOnePage(estimate_page_count(doc, CurrentProfile))
    /\ AtLeastOnePage(estimate_page_count(EmptyDocument, CurrentProfile))

\* a render whose heights sum to less than the usable height was measured
\* as one page
C16_Witness ==
    /\ pc = "measured"
    /\ attempts >= 1
    /\ page_count = [num |-> 1, den |-> 1]
    /\ TotalHeight(doc.paragraphs, CurrentProfile, CharsPerLine(doc))
          < UsableHeight(doc)

\* the document with k more characters in its i-th block
Lengthen(d, i, k) == [d EXCEPT !.paragraphs[i].len = @ + k]

\* a <= b for two estimates of documents of the same margins
PagesLE(a, b) ==
    IF a.den = b.den THEN a.num <= b.num
    ELSE a.num * b.den <= b.num * a.den

StretchSamples == {1, 40, 200}

\* the first block of each style and length: the estimate is a sum over the
\* blocks, so blocks equal in style and length, lengthened alike, give the
\* same estimate
DistinctBlocks(paras) ==
    {i \in 1..Len(paras) : \A j \in 1..(i - 1) : paras[j] # paras[i]}

\* C17: the page estimate is monotonic in text length: for the profile of
\* the measurement, lengthening the text of any one block of the measured
\* block list never lowers the estimate. (A second pass on an instance
\* measures the documents of its first pass again.)
C17_EstimateMonotonic ==
    (pc = "measured" /\ previous = <<>>) =>
        \A i \in DistinctBlocks(doc.paragraphs), k \in StretchSamples :
            \E longer \in {Lengthen(doc, i, k)}, p \in {CurrentProfile} :
                PagesLE(page_count, estimate_page_count(longer, p))

\* a measured render of more than a page, one block of which, lengthened by
\* 40 characters, wraps once more and raises the estimate, while another,
\* lengthened by one character, leaves it as it is
C17_Witness ==
    /\ pc = "measured"
    /\ MoreThanOnePage(page_count)
    /\ \E i \in 1..Len(doc.paragraphs) :
          ~ PagesLE(estimate_page_count(Lengthen(doc, i, 40), CurrentProfile),
                    page_count)
    /\ \E i \in 1..Len(doc.paragraphs) :
          estimate_page_count(Lengthen(doc, i, 1), CurrentProfile)
              = page_count

\* the layout of the data rendered with a profile
Render(d, p) ==
    [ NewDocument(p.name, p.heading, p.normal, p.margin)
        EXCEPT !.paragraphs = AddSections(d) ]

\* C18: the document written to the output file is the layout rendered with
\* the final size profile, the render on which the final page estimate was
\* computed; between the last measurement and the final save neither the
\* profile nor the rendered document changes.
C18_FinalRenderSaved ==
    /\ [](pc = "accepted" =>
            /\ output_file = SavedFile(Render(Data, CurrentProfile))
            /\ doc = Render(Data, CurrentProfile)
            /\ page_count
                  = estimate_page_count(output_file.content[1], CurrentProfile))
    /\ [][(pc = "measured" /\ pc' = "accepted") =>
            /\ doc' = doc
            /\ CurrentProfile' = CurrentProfile
            /\ page_count' = page_count
            /\ output_file' = SavedFile(doc)]_vars

\* a pass accepted after two shrink attempts, on one page
C18_Witness ==
    /\ pc = "accepted"
    /\ attempts = 2
    /\ output_file.content # <<>>
    /\ output_file.content[1].margin = Twips(Inches(margin_size))
    /\ page_count = [num |-> 1, den |-> 1]

\* C19: on every sizing attempt the measured block list is rebuilt from
\* scratch from the data and the current profile: header, summary, work,
\* internships, projects, certifications, skills, education in that order
\* and nothing else; its blocks are those of the attempt before; and the
\* fonts and margins of the estimate are those of the current profile.
C19_RebuiltEveryAttempt ==
    /\ [](pc = "measured" =>
            /\ doc.paragraphs =
                  add_header(name, contact_info)
                  \o add_professional_summary(professional_summary)
                  \o add_work_experience_section(work_experience)
                  \o add_internships_section(internships)
                  \o add_projects_section(projects)
                  \o add_certifications_section(certifications)
                  \o add_technical_skills_section(technical_skills)
                  \o add_education_section(education)
            /\ doc.margin = Twips(Inches(margin_size))
            /\ doc.styles = [ heading |-> HalfPoints(heading_font_size),
                              normal |-> HalfPoints(normal_font_size),
                              name |-> HalfPoints(name_font_size) ]
            /\ temp_file = SavedFile(doc)
            /\ page_count = estimate_page_count(doc, CurrentProfile))
    /\ [][(pc = "shrunk" /\ pc' = "measured") =>
            doc'.paragraphs = temp_file.content[1].paragraphs]_vars

\* the third measurement of a document that has every optional section
C19_Witness ==
    /\ pc = "measured"
    /\ attempts = 2
    /\ internships # <<>>
    /\ projects # <<>>
    /\ certifications # <<>>

\* the base line height of a block, in HU (half a U) to the point: 1.5 x the
\* heading size, 1.5 x the name size, 1.2 x the body size
LineHeight(para) ==
    IF para.style = "ATS Heading" THEN 3 * heading_font_size
    ELSE IF para.style = "Name Style" THEN 3 * name_font_size
    ELSE (12 * normal_font_size) \div 5

\* floor((8.5 in - left - right) x 12), the margins of the document in
\* twips, 1440 to the inch
Columns == ((12240 - doc.margin - doc.margin) * 12) \div 1440

BlockHeights ==
    [i \in 1..Len(doc.paragraphs) |->
        LineHeight(doc.paragraphs[i])
            * Max(1, doc.paragraphs[i].len \div Columns)]

\* 792 pt less the top and bottom margins, in HU (1000 HU to the twip)
Usable == 792 * HU - 1000 * doc.margin - 1000 * doc.margin

\* C20: the page estimate is max(1, sum of block heights / usable height),
\* with usable height = 792pt minus the top and bottom margins, block height
\* = base line height x wrapped lines, base line height = 1.5 x heading size
\* for heading blocks, 1.5 x name size for the name block and 1.2 x body
\* size otherwise, wrapped lines = max(1, text length div characters per
\* line) and characters per line = floor((8.5in - left - right) x 12).
C20_EstimateFormula ==
    pc = "measured" =>
        page_count = IF SumSeq(BlockHeights) > Usable
                     THEN [num |-> SumSeq(BlockHeights), den |-> Usable]
                     ELSE [num |-> 1, den |-> 1]

\* a measurement above one page, after a shrink, of a render with wrapped
\* blocks of body text
C20_Witness ==
    /\ pc = "measured"
    /\ attempts = 1
    /\ MoreThanOnePage(page_count)
    /\ \E i \in 1..Len(doc.paragraphs) :
          /\ doc.paragraphs[i].style = "ATS Normal"
          /\ doc.paragraphs[i].len >= 2 * Columns

----------------------------------------------------------------------------
(* Claims about the fit loop *)

\* the estimate of the first render, made with the tier-selected profile
InitialEstimate ==
    estimate_page_count(Render(Data, TierProfile(Volume)), TierProfile(Volume))

InFitPass == pc \in {"measured", "shrunk", "accepted"}

\* C21: when the estimate of the initial render is at most one page the
\* layout is accepted in one pass: no shrink attempt is made, no overflow
\* warning is given, and the final profile is the tier-selected profile,
\* which for a volume below 900 is (16, 14, 12, 1.2in).
C21_OnePassAcceptance ==
    (InFitPass /\ ~MoreThanOnePage(InitialEstimate)) =>
        /\ pc # "shrunk"
        /\ attempts = 0
        /\ measures = 1
        /\ CurrentProfile = TierProfile(Volume)
        /\ Volume < 9000 =>
              CurrentProfile = Profile(16 * U, 14 * U, 12 * U, (12 * MU) \div 10)
        /\ pc = "accepted" =>
              /\ ~warning
              /\ output_file = SavedFile(Render(Data, TierProfile(Volume)))

C21_Witness ==
    /\ pc = "accepted"
    /\ ~MoreThanOnePage(InitialEstimate)
    /\ Volume < 9000
    /\ attempts = 0
    /\ Len(work_experience) = 1
    /\ Len(education) = 1
    /\ Len(technical_skills) = 2
    /\ margin_size = (12 * MU) \div 10

\* the profile after k shrink steps from the tier-selected one, and the
\* estimate of the data rendered with it
RECURSIVE ShrinkN(_, _)
ShrinkN(p, k) == IF k = 0 THEN p ELSE ShrinkN(ShrinkProfile(p), k - 1)

EstimateAfter(k) ==
    estimate_page_count(Render(Data, ShrinkN(TierProfile(Volume), k)),
                        ShrinkN(TierProfile(Volume), k))

\* an estimate that reads 1.3 to one decimal place: 1.25 <= e < 1.35
Borderline(e) == 4 * e.num >= 5 * e.den /\ 20 * e.num < 27 * e.den

\* C22 as stated: a document whose first estimate is 1.3 is brought to an
\* estimate of at most one page within three shrink iterations, with the
\* body size unchanged.
C22_BorderlineConverges ==
    (pc = "accepted" /\ Borderline(InitialEstimate)) =>
        /\ attempts <= max_attempts
        /\ ~MoreThanOnePage(page_count)
        /\ normal_font_size = 12 * U

\* C22 amended: for a document whose first estimate is 1.3 the fitter
\* shrinks at most three times and stops at the first iteration whose
\* estimate is at most one page, the body size unchanged at every step;
\* when the estimate is still above one page after the third iteration the
\* layout is accepted with the overflow warning.
C22_BorderlineShrinksUntilFit ==
    (InFitPass /\ Borderline(InitialEstimate)) =>
        /\ normal_font_size = 12 * U
        /\ attempts <= max_attempts
        /\ \A k \in 0 .. attempts - 1 : MoreThanOnePage(EstimateAfter(k))
        /\ pc = "accepted" =>
              /\ page_count = EstimateAfter(attempts)
              /\ attempts = max_attempts \/ ~MoreThanOnePage(page_count)
              /\ warning = MoreThanOnePage(page_count)

\* a borderline document accepted after two shrinks, one short of the limit
C22_Witness ==
    /\ pc = "accepted"
    /\ Borderline(InitialEstimate)
    /\ attempts = 2
    /\ MoreThanOnePage(EstimateAfter(1))
    /\ ~MoreThanOnePage(page_count)
    /\ ~warning

\* an / ad <= bn / bd for positive integers, exactly and without products:
\* the whole parts are compared, then the reciprocals of the remainders
RECURSIVE FracLE(_, _, _, _)
FracLE(an, ad, bn, bd) ==
    IF an \div ad # bn \div bd THEN an \div ad < bn \div bd
    ELSE IF an % ad = 0 THEN TRUE
    ELSE IF bn % bd = 0 THEN FALSE
    ELSE FracLE(bd, bn % bd, ad, an % ad)

EstimateLE(a, b) == FracLE(a.num, a.den, b.num, b.den)

\* C23: for a fixed document the page estimate never increases from one
\* shrink attempt to the next: the estimate measured after a shrink is at
\* most the estimate measured before it (the first one being the estimate
\* of the initial render).
C23_EstimateNeverIncreases ==
    [][ (pc = "shrunk" /\ pc' = "measured") =>
            /\ Data' = Data
            /\ EstimateLE(page_count', page_count) ]_vars

\* a second shrink has been measured and its estimate is strictly below
\* the one before it, which was still above one page
C23_Witness ==
    /\ pc = "measured"
    /\ attempts = 2
    /\ page_count = EstimateAfter(2)
    /\ MoreThanOnePage(page_count)
    /\ ~EstimateLE(EstimateAfter(1), page_count)
    /\ ~EstimateLE(InitialEstimate, EstimateAfter(1))

\* the profile of the tier above 1800: name 14, heading 13, body 12, 0.5in
SmallestProfile == Profile(14 * U, 13 * U, 12 * U, (5 * MU) \div 10)

\* C24: the smallest profile (14, 13, 12, 0.5in) is a fixed point of the
\* shrink step: for a document in the tier above 1800 whose initial estimate
\* is above one page, all 3 shrink attempts leave the profile and the page
\* estimate unchanged, and the pass ends with the overflow warning.
C24_SmallestProfileFixed ==
    (InFitPass /\ Volume > 18000 /\ MoreThanOnePage(InitialEstimate)) =>
        /\ CurrentProfile = SmallestProfile
        /\ doc.margin = Twips(Inches(SmallestProfile.margin))
        /\ page_count = InitialEstimate
        /\ pc = "measured" /\ attempts < max_attempts => ENABLED Shrink
        /\ pc = "accepted" =>
              /\ attempts = max_attempts
              /\ measures = max_attempts + 1
              /\ warning

C24_Witness ==
    /\ pc = "accepted"
    /\ Volume > 18000
    /\ MoreThanOnePage(InitialEstimate)
    /\ attempts = 3
    /\ CurrentProfile = SmallestProfile
    /\ warning

\* the number of further shrink steps the ordering is followed through
MaxShrinks == 6

Ordered(p) ==
    /\ p.name >= p.heading
    /\ p.heading > p.normal
    /\ p.name >= 14 * U
    /\ p.heading >= 13 * U

\* C25: in every profile reached by tier selection followed by any number
\* of shrink steps the sizes stay ordered: name >= heading > body, with
\* name >= 14 and heading >= 13.
C25_SizesOrdered ==
    /\ Ordered(CurrentProfile)
    /\ \E tier \in {TierProfile(Volume)} :
          \A k \in 0 .. MaxShrinks : Ordered(ShrinkN(tier, k))
    /\ InFitPass => CurrentProfile = ShrinkN(TierProfile(Volume), attempts)

\* three shrinks from a larger tier have brought the name and the heading
\* down to their floors
C25_Witness ==
    /\ pc = "measured"
    /\ attempts = 3
    /\ TierProfile(Volume).name = 16 * U
    /\ name_font_size = 14 * U
    /\ heading_font_size = 13 * U
    /\ margin_size > min_margin

----------------------------------------------------------------------------
(* Claims about the add_* calls *)

SectionLists == << work_experience, internships, projects, certifications,
                   education >>

\* xs with one entry added at its end
Extends(ys, xs) ==
    /\ Len(ys) = Len(xs) + 1
    /\ \A i \in 1..Len(xs) : ys[i] = xs[i]

Labels(cats) == {cats[i].category : i \in 1..Len(cats)}

\* C28: each add_work_experience, add_internship, add_project,
\* add_certification or add_education call adds its entry at the end of its
\* own list, so that each list holds the entries added to it in call order,
\* and leaves every other section, the skills mapping and the size profile
\* unchanged; add_technical_skills changes only the skills mapping, and a
\* label that already exists has its skill list replaced, in place, without
\* a second category of that label.
C28_AddFrame ==
    [][ /\ \A i \in 1..5 :
             SectionLists'[i] # SectionLists[i] =>
                /\ Extends(SectionLists'[i], SectionLists[i])
                /\ \A j \in 1..5 \ {i} : SectionLists'[j] = SectionLists[j]
                /\ technical_skills' = technical_skills
                /\ CurrentProfile' = CurrentProfile
        /\ technical_skills' # technical_skills =>
             /\ SectionLists' = SectionLists
             /\ CurrentProfile' = CurrentProfile
             /\ Cardinality(Labels(technical_skills'))
                   = Len(technical_skills')
             /\ \/ /\ Extends(technical_skills', technical_skills)
                   /\ technical_skills'[Len(technical_skills')].category
                         \notin Labels(technical_skills)
                \/ /\ Len(technical_skills') = Len(technical_skills)
                   /\ \E i \in 1..Len(technical_skills) :
                         /\ technical_skills'[i].category
                               = technical_skills[i].category
                         /\ \A j \in 1..Len(technical_skills) \ {i} :
                               technical_skills'[j] = technical_skills[j]
      ]_vars

\* two jobs in the order of their calls, and behind the first category,
\* added with no skill and then given three, a second category
C28_Witness ==
    /\ pc = "idle"
    /\ work_experience = << HeavyJob, EmptyJob >>
    /\ Len(technical_skills) = 2
    /\ technical_skills[1]
         = [category |-> "Programming Language", skills |-> <<6, 4, 1>>]
    /\ technical_skills[2].category = "Tools"

----------------------------------------------------------------------------
(* Claims about failures *)

\* C11: whenever a generation pass has ended, normally or because saving or
\* reloading a trial render failed partway, the temporary trial file of the
\* pass has been removed.
C11_TempFileRemoved ==
    pc \in {"accepted", "failed"} => ~ temp_file.exists

\* C12: when the input document lacks a required field (name, contact_info,
\* work_experience, technical_skills, education), the call ends in the error
\* before any layout work: no generator is built, nothing is estimated,
\* selected, rendered or written, and nothing more happens (no retry).
C12_ValidationFirst ==
    (loader \in {"exited", "built"}
     /\ required_fields \ json_doc.present # {}) =>
        /\ loader = "exited"
        /\ pc = "unbuilt"
        /\ measures = 0
        /\ doc.paragraphs = <<>>
        /\ CurrentProfile = Profile(max_font_size + 2 * U, max_font_size,
                                    min_font_size, default_margin)
        /\ temp_file = NoFile
        /\ output_file = NoFile
        /\ ~ ENABLED JsonNext

\* a document that has everything but its education has been rejected
C12_Witness ==
    /\ loader = "exited"
    /\ json_doc.present = required_fields \ {"education"}
    /\ json_doc.data.work_experience # <<>>

\* C13: a failure to render or measure is fatal for the request: the
\* exception leaves generate_resume at once (the attempt is aborted: no
\* measurement is completed, the profile and the attempt count stay as they
\* were), and nothing happens after it: no further shrink attempt, no retry
\* of the same profile, no output written later.
C13_RenderFailureFatal ==
    [][ /\ fault' # "none" => pc' = "failed"
        /\ (fault = "none" /\ fault' # "none") =>
              /\ CurrentProfile' = CurrentProfile
              /\ attempts' = attempts
              /\ measures' = measures
              /\ page_count' = page_count
        /\ fault = "none" ]_vars

\* the reload of the second shrink attempt's render has failed
C13_Witness ==
    /\ fault = "load"
    /\ pc = "failed"
    /\ attempts = 2
    /\ measures = 2

----------------------------------------------------------------------------
(* Claims about the web application *)

\* C10: concurrent /generate requests are isolated: in every interleaving
\* no request is broken by another's writes or deletions of files (none ends
\* in a process exit, or in an error page that its own data do not cause)
\* and the resume of each request is the resume of its own form data, with
\* the profile and the diagnostics that data alone determines
C10_RequestsIsolated ==
    \A r \in Requests :
        /\ requests[r].pc # "exited"
        /\ requests[r].response = "error" =>
              GenerateRaises(requests[r].data[1])
        /\ requests[r].resume # <<>> =>
              requests[r].resume[1]
                  = create_resume_from_json(requests[r].data[1])

\* C26: for every form submission, an empty one included, the extracted
\* data has the five required keys, so the required-field validation does
\* not reject the request, and a request that has loaded its own data
\* proceeds to layout: once past generation it has a resume.
C26_EmptySubmissionProceeds ==
    \A r \in Requests :
        /\ requests[r].data # <<>> =>
              required_fields \subseteq DOMAIN requests[r].data[1]
        /\ requests[r].loaded # <<>> =>
              required_fields \subseteq DOMAIN requests[r].loaded[1]
        /\ ( /\ requests[r].loaded # <<>>
             /\ requests[r].loaded = requests[r].data
             /\ requests[r].pc \in {"generated", "done"} ) =>
                requests[r].resume # <<>>

\* C27: after a /generate request has finished, with the resume generated or
\* with an error reported, and no other request is under way, the temporary
\* JSON input file no longer exists.
C27_TempJsonRemoved ==
    ( /\ \E r \in Requests : requests[r].pc = "done"
      /\ \A r \in Requests : requests[r].pc \in {"idle", "done"} ) =>
        ~ json_file.exists

====
